---- MODULE Spec2Model ----
(***************************************************************************)
(* FedLearn: the FedAvg orchestration loop (main_fedavg.py main and        *)
(* train_client, client_fedavg.py Client) and the FedAF server step        *)
(* (server_fedaf.py server_update and augment_data).                       *)
(*                                                                         *)
(* Model states (state_dicts) are symbolic terms, so that equality of two  *)
(* states means they were produced the same way:                           *)
(*   <<"init">>                               the Server's first model     *)
(*   <<"trained", start, client_id, data>>    Client.train's result        *)
(*   <<"agg", client_models, data_sizes>>     Server.aggregate's result    *)
(* <<>> stands for "no state yet".                                         *)
(***************************************************************************)
EXTENDS Integers, Sequences, FiniteSets, TLC

\* ---------------------------------------------------------------- bounds
\* ARGS.num_clients (5 in the source); the loop is parametric in it.
NumClients == 2
\* ARGS.num_rounds (20 in the source); the loop is parametric in it.
NumRounds == 2
\* Number of samples of the full training set that load_data partitions.
DatasetSize == 2
\* server_update's num_partitions argument.
NumPartitions == 2
\* num_classes (10 for both datasets server_update accepts); the aggregation
\* and balancing loops are parametric in it.
NumClasses == 2
\* Largest number of images one client's synthetic data file holds.
MaxImages == 1

Clients == 0 .. (NumClients - 1)
Rounds == 1 .. NumRounds
Dataset == 1 .. DatasetSize
NoState == << >>
NoAccuracy == 0 - 1
\* The accuracies server.evaluate may report (a low and a high one).
AccuracyValues == {10, 90}

VARIABLES
  \* ---- main() of main_fedavg.py
  pc,               \* position of main()
  round_num,        \* loop variable of line 87
  server,           \* the Server's global model state
  client_indices,   \* load_data's partition: client -> set of dataset indices
  honest_clients,   \* line 73
  data_sizes,       \* lines 75-81
  test_accuracies,  \* line 84
  global_model,     \* line 91
  client_states,    \* lines 94-103: client -> <<client_id, global_model, is_dishonest>>
  client_models,    \* line 107
  accuracy,         \* line 113
  \* ---- the worker processes of the ProcessPoolExecutor (train_client)
  cpc,              \* client -> position of its train_client call
  client_state,     \* client -> the pickled tuple its train_client call received
  train_data,       \* client -> the data the worker loaded
  local_model,      \* client -> Client.local_model's state
  results,          \* client -> the value its future holds
  finish_order,     \* the order in which this round's futures completed
  \* ---- history (what the calls of each round were given and returned)
  distributed,      \* round -> state fetched by get_global_model
  aggregated,       \* round -> state produced by server.aggregate
  evaluated,        \* round -> accuracy returned by server.evaluate
  agg_calls,        \* round -> number of server.aggregate calls
  eval_calls,       \* round -> number of server.evaluate calls
  agg_args,         \* round -> <<client_models, data_sizes>> passed to aggregate
  flags_passed,     \* client -> set of is_dishonest values passed to train_client
  randomized,       \* client -> set of "labels were randomized" outcomes
  trained_on,       \* client -> set of partitions the client trained on
  loaded_state,     \* client -> round -> state loaded by set_model
  round_start,      \* round -> state the server held when the round began
  trained_round,    \* client -> last round whose training the client finished
  \* ---- server_update() of server_fedaf.py
  su_pc,            \* position of server_update()
  su_round,         \* its round_num argument
  client_files,     \* client -> the synthetic data file of this round
  rc_file,          \* the Round<r>_Global_Rc.pt file: "missing" or a list of entries
  model_files,      \* round -> contents of fedaf_global_model_<round>.pth
  Rc,               \* lines 221-227
  client_id,        \* loop variable of line 235
  all_images,       \* line 229, concatenated by line 268
  all_labels,       \* line 230, concatenated by line 269
  class_counts,     \* line 231
  balanced_images,  \* line 293
  balanced_labels,  \* line 294
  net,              \* line 304
  ret,              \* the value server_update returned
  trained,          \* train_model ran to its end
  evaluated_net,    \* evaluate_model ran
  writes,           \* number of completed torch.save calls on a model file
  error             \* where an exception left server_update ("" if none)

mainVars == << pc, round_num, server, client_indices, honest_clients, data_sizes,
               test_accuracies, global_model, client_states, client_models, accuracy >>
workerVars == << cpc, client_state, train_data, local_model, results, finish_order >>
histVars == << distributed, aggregated, evaluated, agg_calls, eval_calls, agg_args,
               flags_passed, randomized, trained_on, loaded_state, round_start,
               trained_round >>
fedafVars == << su_pc, su_round, client_files, rc_file, model_files, Rc, client_id,
                all_images, all_labels, class_counts, balanced_images, balanced_labels,
                net, ret, trained, evaluated_net, writes, error >>
vars == << mainVars, workerVars, histVars, fedafVars >>

\* ------------------------------------------------------------ collaborators
\* Server (server/server_fedavg.py) and utils.utils_fedavg are not part of the
\* sources at hand; they are modelled from the specification's data model.

\* Server.__init__: the server owns the global model state.
ServerInit == << "init" >>

\* Server.get_global_model: the state the server holds.
ServerGetGlobalModel(srv) == srv

\* Server.aggregate: the global state is replaced by the weighted average of
\* the client models.
ServerAggregate(srv, models, sizes) == << "agg", models, sizes >>

\* Server.evaluate: reports an accuracy; the global state is left alone.
ServerEvaluate(srv) == srv

\* load_data: a partition of the dataset over the clients (some may be empty).
Partitions ==
  { [ i \in Clients |-> { d \in Dataset : owner[d] = i } ] : owner \in [Dataset -> Clients] }

\* load_client_data(client_id, args): the client's partition, labels intact.
LoadClientData(cid) == [ indices |-> client_indices[cid], randomized |-> FALSE ]

\* randomize_labels(train_data): the same samples with corrupted labels.
RandomizeLabels(td) == [ td EXCEPT !.randomized = TRUE ]

\* ------------------------------------------------------------------ main()
\* lines 72-73: random.sample(range(num_clients), num_honest_clients), for any
\* honesty_ratio in [0, 1].
HonestChoices == SUBSET Clients

\* A slip in lines 78-80: every size taken from the first client's partition.
DataSizesOfFirst(ci) == [ i \in Clients |-> Cardinality(ci[0]) ]

\* lines 75-81: data_sizes[i] = len(client_indices[i]).
DataSizesOf(ci) == [ i \in Clients |-> Cardinality(ci[i]) ]

\* A slip in line 96: the honest set re-drawn per round (here: flipped in
\* even rounds).
IsDishonestPerRound(cid) == (cid \notin honest_clients) = (round_num % 2 = 1)

\* line 96: is_dishonest = client_id not in honest_clients.
IsDishonest(cid) == cid \notin honest_clients

\* lines 97-102: the tuple built for one client (vars(args) is constant).
ClientState(cid) == << cid, global_model, IsDishonest(cid) >>

\* A slip in line 91: the fetch hoisted out of the loop, so later rounds
\* reuse the first round's state.
FetchGlobalModelOnce == IF round_num = 1 THEN ServerGetGlobalModel(server) ELSE global_model

\* line 91: the state distributed in this round.
FetchGlobalModel == ServerGetGlobalModel(server)

\* A slip in line 87: the loop also stops once the accuracy is high.
LoopContinuesEarlyStop == round_num < NumRounds /\ accuracy < 90

\* line 87: range(1, num_rounds + 1) has another value after round_num.
LoopContinues == round_num < NumRounds

\* A slip in lines 106-107: going on as soon as one future has completed.
SomeReturned == \E i \in Clients : cpc[i] = "returned"

\* lines 106-107: every future has completed.
AllReturned == \A i \in Clients : cpc[i] = "returned"

\* A slip in line 107: the results taken in completion order (as_completed).
MapResultsAsCompleted ==
  [ i \in Clients |-> IF i + 1 <= Len(finish_order) THEN results[finish_order[i + 1]]
                                                   ELSE NoState ]

\* line 107: executor.map yields the results in the order of client_states.
MapResults == [ i \in Clients |-> results[i] ]

\* server_update is not running.
FedafIdle ==
  /\ su_pc = "idle"
  /\ su_round = 0
  /\ client_files = << >>
  /\ rc_file = << >>
  /\ model_files = [ state |-> "absent", content |-> << >> ]
  /\ Rc = << >>
  /\ client_id = 0
  /\ all_images = << >>
  /\ all_labels = << >>
  /\ class_counts = << >>
  /\ balanced_images = << >>
  /\ balanced_labels = << >>
  /\ net = << >>
  /\ ret = << >>
  /\ trained = FALSE
  /\ evaluated_net = FALSE
  /\ writes = 0
  /\ error = ""

Init ==
  /\ pc = "fetch"
  /\ round_num = 1
  /\ server = ServerInit
  /\ client_indices \in Partitions
  /\ honest_clients \in HonestChoices
  /\ data_sizes = DataSizesOf(client_indices)
  /\ test_accuracies = << >>
  /\ global_model = NoState
  /\ client_states = [ i \in Clients |-> << >> ]
  /\ client_models = [ i \in Clients |-> NoState ]
  /\ accuracy = NoAccuracy
  /\ cpc = [ i \in Clients |-> "idle" ]
  /\ client_state = [ i \in Clients |-> << >> ]
  /\ train_data = [ i \in Clients |-> [ indices |-> {}, randomized |-> FALSE ] ]
  /\ local_model = [ i \in Clients |-> NoState ]
  /\ results = [ i \in Clients |-> NoState ]
  /\ finish_order = << >>
  /\ distributed = [ r \in Rounds |-> NoState ]
  /\ aggregated = [ r \in Rounds |-> NoState ]
  /\ evaluated = [ r \in Rounds |-> NoAccuracy ]
  /\ agg_calls = [ r \in Rounds |-> 0 ]
  /\ eval_calls = [ r \in Rounds |-> 0 ]
  /\ agg_args = [ r \in Rounds |-> << >> ]
  /\ flags_passed = [ i \in Clients |-> {} ]
  /\ randomized = [ i \in Clients |-> {} ]
  /\ trained_on = [ i \in Clients |-> {} ]
  /\ loaded_state = [ i \in Clients |-> [ r \in Rounds |-> NoState ] ]
  /\ round_start = [ r \in Rounds |-> NoState ]
  /\ trained_round = [ i \in Clients |-> 0 ]
  /\ FedafIdle

\* line 91: global_model = server.get_global_model()
GetGlobalModel ==
  /\ pc = "fetch"
  /\ global_model' = FetchGlobalModel
  /\ distributed' = [ distributed EXCEPT ![round_num] = FetchGlobalModel ]
  /\ round_start' = [ round_start EXCEPT ![round_num] = server ]
  /\ pc' = "prepare"
  /\ UNCHANGED << round_num, server, client_indices, honest_clients, data_sizes,
                  test_accuracies, client_states, client_models, accuracy >>
  /\ UNCHANGED workerVars
  /\ UNCHANGED << aggregated, evaluated, agg_calls, eval_calls, agg_args, flags_passed,
                  randomized, trained_on, loaded_state, trained_round >>
  /\ UNCHANGED fedafVars

\* lines 94-103: one client_state per client, in client-id order.
PrepareClientStates ==
  /\ pc = "prepare"
  /\ client_states' = [ i \in Clients |-> ClientState(i) ]
  /\ pc' = "submit"
  /\ UNCHANGED << round_num, server, client_indices, honest_clients, data_sizes,
                  test_accuracies, global_model, client_models, accuracy >>
  /\ UNCHANGED workerVars
  /\ UNCHANGED histVars
  /\ UNCHANGED fedafVars

\* lines 106-107: executor.map submits one train_client call per client_state;
\* each worker process receives its own pickled copy of the tuple.
SubmitClients ==
  /\ pc = "submit"
  /\ client_state' = client_states
  /\ cpc' = [ i \in Clients |-> "start" ]
  /\ results' = [ i \in Clients |-> NoState ]
  /\ local_model' = [ i \in Clients |-> NoState ]
  /\ finish_order' = << >>
  /\ flags_passed' = [ i \in Clients |-> flags_passed[i] \cup { client_states[i][3] } ]
  /\ pc' = "wait"
  /\ UNCHANGED << round_num, server, client_indices, honest_clients, data_sizes,
                  test_accuracies, global_model, client_states, client_models, accuracy >>
  /\ UNCHANGED train_data
  /\ UNCHANGED << distributed, aggregated, evaluated, agg_calls, eval_calls, agg_args,
                  randomized, trained_on, loaded_state, round_start, trained_round >>
  /\ UNCHANGED fedafVars

\* ------------------------------------------------- train_client (a worker)
\* line 41: the tuple the worker unpacks.
WorkerClientId(i) == client_state[i][1]
WorkerIsDishonest(i) == client_state[i][3]

\* A slip in line 52: a client starting from the model of the client that
\* finished last before it (sequential hand-over instead of parallel training).
SetModelArgChained(i) ==
  IF finish_order # << >> THEN results[finish_order[Len(finish_order)]] ELSE client_state[i][2]

\* lines 41, 52: the state handed to client.set_model.
SetModelArg(i) == client_state[i][2]

\* lines 46-49: the data the worker trains on.
TrainDataFor(i) ==
  IF WorkerIsDishonest(i) THEN RandomizeLabels(LoadClientData(WorkerClientId(i)))
  ELSE LoadClientData(WorkerClientId(i))

\* Client.train (client_fedavg.py 39-56): SGD on the client's own model copy
\* over its train_loader; the result is the local model's state_dict.
ClientTrain(start, cid, td) == << "trained", start, cid, td >>

\* lines 43-49: load the client's data, randomize the labels of a dishonest one.
LoadData(i) ==
  /\ cpc[i] = "start"
  /\ train_data' = [ train_data EXCEPT ![i] = TrainDataFor(i) ]
  /\ randomized' = [ randomized EXCEPT ![i] = @ \cup { TrainDataFor(i).randomized } ]
  /\ cpc' = [ cpc EXCEPT ![i] = "loaded" ]
  /\ UNCHANGED mainVars
  /\ UNCHANGED << client_state, local_model, results, finish_order >>
  /\ UNCHANGED << distributed, aggregated, evaluated, agg_calls, eval_calls, agg_args,
                  flags_passed, trained_on, loaded_state, round_start, trained_round >>
  /\ UNCHANGED fedafVars

\* lines 51-52 and Client.set_model (client_fedavg.py 35-37): a new Client whose
\* local model is loaded with the received state.
SetModel(i) ==
  /\ cpc[i] = "loaded"
  /\ local_model' = [ local_model EXCEPT ![i] = SetModelArg(i) ]
  /\ loaded_state' = [ loaded_state EXCEPT ![i][round_num] = SetModelArg(i) ]
  /\ cpc' = [ cpc EXCEPT ![i] = "ready" ]
  /\ UNCHANGED mainVars
  /\ UNCHANGED << client_state, train_data, results, finish_order >>
  /\ UNCHANGED << distributed, aggregated, evaluated, agg_calls, eval_calls, agg_args,
                  flags_passed, randomized, trained_on, round_start, trained_round >>
  /\ UNCHANGED fedafVars

\* line 53: return client.train(); the value becomes the future's result.
Train(i) ==
  /\ cpc[i] = "ready"
  /\ local_model' = [ local_model EXCEPT ![i] =
                        ClientTrain(local_model[i], WorkerClientId(i), train_data[i]) ]
  /\ results' = [ results EXCEPT ![i] = local_model'[i] ]
  /\ finish_order' = Append(finish_order, i)
  /\ trained_on' = [ trained_on EXCEPT ![i] = @ \cup { train_data[i].indices } ]
  /\ trained_round' = [ trained_round EXCEPT ![i] = round_num ]
  /\ cpc' = [ cpc EXCEPT ![i] = "returned" ]
  /\ UNCHANGED mainVars
  /\ UNCHANGED << client_state, train_data >>
  /\ UNCHANGED << distributed, aggregated, evaluated, agg_calls, eval_calls, agg_args,
                  flags_passed, randomized, loaded_state, round_start >>
  /\ UNCHANGED fedafVars

ClientStep(i) == LoadData(i) \/ SetModel(i) \/ Train(i)

\* ------------------------------------------------------ main(), continued
\* lines 106-107: list(executor.map(...)) and the exit of the with block wait
\* for every future.
CollectModels ==
  /\ pc = "wait"
  /\ AllReturned
  /\ client_models' = MapResults
  /\ pc' = "aggregate"
  /\ UNCHANGED << round_num, server, client_indices, honest_clients, data_sizes,
                  test_accuracies, global_model, client_states, accuracy >>
  /\ UNCHANGED workerVars
  /\ UNCHANGED histVars
  /\ UNCHANGED fedafVars

\* line 110: server.aggregate(client_models, data_sizes)
Aggregate ==
  /\ pc = "aggregate"
  /\ server' = ServerAggregate(server, client_models, data_sizes)
  /\ aggregated' = [ aggregated EXCEPT ![round_num] = server' ]
  /\ agg_calls' = [ agg_calls EXCEPT ![round_num] = @ + 1 ]
  /\ agg_args' = [ agg_args EXCEPT ![round_num] = << client_models, data_sizes >> ]
  /\ pc' = "evaluate"
  /\ UNCHANGED << round_num, client_indices, honest_clients, data_sizes,
                  test_accuracies, global_model, client_states, client_models, accuracy >>
  /\ UNCHANGED workerVars
  /\ UNCHANGED << distributed, evaluated, eval_calls, flags_passed, randomized,
                  trained_on, loaded_state, round_start, trained_round >>
  /\ UNCHANGED fedafVars

\* line 113: accuracy = server.evaluate(test_loader, round_num)
Evaluate ==
  /\ pc = "evaluate"
  /\ \E a \in AccuracyValues : accuracy' = a
  /\ server' = ServerEvaluate(server)
  /\ evaluated' = [ evaluated EXCEPT ![round_num] = accuracy' ]
  /\ eval_calls' = [ eval_calls EXCEPT ![round_num] = @ + 1 ]
  /\ pc' = "append"
  /\ UNCHANGED << round_num, client_indices, honest_clients, data_sizes,
                  test_accuracies, global_model, client_states, client_models >>
  /\ UNCHANGED workerVars
  /\ UNCHANGED << distributed, aggregated, agg_calls, agg_args, flags_passed, randomized,
                  trained_on, loaded_state, round_start, trained_round >>
  /\ UNCHANGED fedafVars

\* lines 114, 87, 116: append the accuracy, then the next round or the end.
AppendAccuracy ==
  /\ pc = "append"
  /\ test_accuracies' = Append(test_accuracies, accuracy)
  /\ IF LoopContinues
       THEN /\ round_num' = round_num + 1
            /\ pc' = "fetch"
       ELSE /\ round_num' = round_num
            /\ pc' = "done"
  /\ UNCHANGED << server, client_indices, honest_clients, data_sizes,
                  global_model, client_states, client_models, accuracy >>
  /\ UNCHANGED workerVars
  /\ UNCHANGED histVars
  /\ UNCHANGED fedafVars

MainStep ==
  \/ GetGlobalModel
  \/ PrepareClientStates
  \/ SubmitClients
  \/ CollectModels
  \/ Aggregate
  \/ Evaluate
  \/ AppendAccuracy

Next ==
  \/ MainStep
  \/ \E i \in Clients : ClientStep(i)

Spec == Init /\ [][Next]_vars

\* Every client training call terminates and main() is scheduled.
FairSpec ==
  /\ Spec
  /\ WF_vars(MainStep)
  /\ \A i \in Clients : WF_vars(ClientStep(i))

\* ------------------------------------------ server_update (server_fedaf.py)
Parts == 0 .. (NumPartitions - 1)
Classes == 0 .. (NumClasses - 1)

\* A synthetic data file of one client for this round: it is missing, or
\* torch.load raises on it, or it holds a dict that lacks the key 'images' or
\* the key 'labels', or a dict with both (its images possibly none). Image k
\* of client c is <<c, k, 0>>; <<c, k, p>> with p > 0 is the copy of it made
\* by pass p of augment_data.
LabelLists == UNION { [ 1 .. n -> Classes ] : n \in 0 .. MaxImages }
FileKinds ==
  { [ kind |-> k, labels |-> << >> ] : k \in { "missing", "corrupt", "no_images", "no_labels" } }
  \cup { [ kind |-> "data", labels |-> ls ] : ls \in LabelLists }
ImagesOf(c, f) == [ k \in 1 .. Len(f.labels) |-> << c, k, 0 >> ]

\* The Rc file: absent, or one entry per class, each None or a soft-label vector.
RcFiles ==
  { [ exists |-> FALSE, entries |-> [ c \in Classes |-> "None" ] ] }
  \cup { [ exists |-> TRUE, entries |-> e ] : e \in [ Classes -> { "None", "soft" } ] }

\* The model file of this round: absent, or left by an earlier run.
ModelFileStates == { [ state |-> st, content |-> << >> ] : st \in { "absent", "old" } }

NotReturned == [ kind |-> "not_returned", len |-> 0 ]
\* line 264: [None for _ in range(num_classes)]
NoneList == [ kind |-> "list_of_None", len |-> NumClasses ]
\* line 312 and the end of the function: None
ReturnNone == [ kind |-> "None", len |-> 0 ]

InitFedAF ==
  /\ su_pc = "load_rc"
  /\ su_round = 1
  /\ client_files \in [ Parts -> FileKinds ]
  /\ rc_file \in RcFiles
  /\ model_files \in ModelFileStates
  /\ Rc = << >>
  /\ client_id = 0
  /\ all_images = << >>
  /\ all_labels = << >>
  /\ class_counts = [ c \in Classes |-> 0 ]
  /\ balanced_images = << >>
  /\ balanced_labels = << >>
  /\ net = << >>
  /\ ret = NotReturned
  /\ trained = FALSE
  /\ evaluated_net = FALSE
  /\ writes = 0
  /\ error = ""
  \* main() of main_fedavg.py is not running.
  /\ pc = "idle"
  /\ round_num = 0
  /\ server = NoState
  /\ client_indices = << >>
  /\ honest_clients = {}
  /\ data_sizes = << >>
  /\ test_accuracies = << >>
  /\ global_model = NoState
  /\ client_states = << >>
  /\ client_models = << >>
  /\ accuracy = NoAccuracy
  /\ cpc = << >>
  /\ client_state = << >>
  /\ train_data = << >>
  /\ local_model = << >>
  /\ results = << >>
  /\ finish_order = << >>
  /\ distributed = << >>
  /\ aggregated = << >>
  /\ evaluated = << >>
  /\ agg_calls = << >>
  /\ eval_calls = << >>
  /\ agg_args = << >>
  /\ flags_passed = << >>
  /\ randomized = << >>
  /\ trained_on = << >>
  /\ loaded_state = << >>
  /\ round_start = << >>
  /\ trained_round = << >>

fedavgVars == << mainVars, workerVars, histVars >>

\* lines 220-227: Rc from the file, or num_classes None entries.
LoadRc ==
  /\ su_pc = "load_rc"
  /\ Rc' = IF rc_file.exists THEN rc_file.entries ELSE [ c \in Classes |-> "None" ]
  /\ su_pc' = "clients"
  /\ UNCHANGED << su_round, client_files, rc_file, model_files, client_id, all_images,
                  all_labels, class_counts, balanced_images, balanced_labels, net, ret,
                  trained, evaluated_net, writes, error >>
  /\ UNCHANGED fedavgVars

\* A slip in line 245: the test for an empty 'images' tensor left out.
FileContributesEmpty(f) == f.kind = "data"

\* lines 242-245: the file exists, loads, holds both keys and at least one image.
FileContributes(f) ==
  /\ f.kind # "missing"
  /\ f.kind # "corrupt"
  /\ f.kind # "no_images"
  /\ f.kind # "no_labels"
  /\ Len(f.labels) > 0

\* lines 252-253: class_counts[label] += 1 for every label.
RECURSIVE CountLabels(_, _)
CountLabels(counts, labels) ==
  IF labels = << >> THEN counts
  ELSE CountLabels([ counts EXCEPT ![Head(labels)] = @ + 1 ], Tail(labels))

\* lines 235-259: one iteration of the loop over the clients.
AggregateClient ==
  /\ su_pc = "clients"
  /\ client_id < NumPartitions
  /\ IF FileContributes(client_files[client_id])
       THEN /\ all_images' = Append(all_images, ImagesOf(client_id, client_files[client_id]))
            /\ all_labels' = Append(all_labels, client_files[client_id].labels)
            /\ class_counts' = CountLabels(class_counts, client_files[client_id].labels)
       ELSE UNCHANGED << all_images, all_labels, class_counts >>
  /\ client_id' = client_id + 1
  /\ UNCHANGED << su_pc, su_round, client_files, rc_file, model_files, Rc,
                  balanced_images, balanced_labels, net, ret, trained, evaluated_net,
                  writes, error >>
  /\ UNCHANGED fedavgVars

\* torch.cat of a list of tensors.
RECURSIVE Cat(_)
Cat(list) == IF list = << >> THEN << >> ELSE Head(list) \o Cat(Tail(list))

\* lines 261-269: nothing aggregated: return the list of None; otherwise
\* concatenate the clients' tensors.
CheckAggregated ==
  /\ su_pc = "clients"
  /\ client_id = NumPartitions
  /\ IF all_images = << >>
       THEN /\ ret' = NoneList
            /\ su_pc' = "returned"
            /\ UNCHANGED << all_images, all_labels >>
       ELSE /\ all_images' = Cat(all_images)
            /\ all_labels' = Cat(all_labels)
            /\ su_pc' = "balance"
            /\ UNCHANGED ret
  /\ UNCHANGED << su_round, client_files, rc_file, model_files, Rc, client_id,
                  class_counts, balanced_images, balanced_labels, net, trained,
                  evaluated_net, writes, error >>
  /\ UNCHANGED fedavgVars

\* line 272: class_counts.max()
RECURSIVE MaxOver(_, _)
MaxOver(counts, c) ==
  IF c = 0 THEN counts[0]
  ELSE IF counts[c] > MaxOver(counts, c - 1) THEN counts[c] ELSE MaxOver(counts, c - 1)
max_class_count == MaxOver(class_counts, NumClasses - 1)

\* line 277: the positions of the samples labelled c.
ClassIndices(c) == { k \in 1 .. Len(all_labels) : all_labels[k] = c }
RECURSIVE Pick(_, _, _)
Pick(seq, idx, k) ==
  IF k > Len(seq) THEN << >>
  ELSE (IF k \in idx THEN << seq[k] >> ELSE << >>) \o Pick(seq, idx, k + 1)
\* lines 278-279
ClassImages(c) == Pick(all_images, ClassIndices(c), 1)
ClassLabels(c) == Pick(all_labels, ClassIndices(c), 1)
Numel(c) == Cardinality(ClassIndices(c))

\* line 281
NeedsAugmentation(c) == Numel(c) < max_class_count

\* line 283: (max_class_count // class_indices.numel()) - 1, for numel > 0.
AugmentationFactor(c) == (max_class_count \div Numel(c)) - 1

\* augment_data, lines 33-37: augmentation_factor passes over the images.
RECURSIVE AugmentPasses(_, _)
AugmentPasses(images, factor) ==
  IF factor < 1 THEN << >>
  ELSE AugmentPasses(images, factor - 1)
         \o [ k \in 1 .. Len(images) |-> << images[k][1], images[k][2], factor >> ]

\* class_counts is a float32 tensor (line 231), so augmentation_factor reaches
\* range() of line 34 as a 0-dim float tensor. PyTorch refuses to turn one into
\* an index (TypeError); "integer" keeps the run in which the quotient is
\* taken as the integer it denotes, so that nothing rests on that refusal.
RangeReadings == { "float", "integer" }

\* The call of lines 283-284 raises: numel 0 divides by zero (an infinite
\* factor no range() accepts), a factor of 0 makes torch.stack of line 39 fail
\* on an empty list, and a float factor is refused by range().
AugmentRaises(c, reading) ==
  \/ Numel(c) = 0
  \/ AugmentationFactor(c) < 1
  \/ reading = "float"

ClassRaises(c, reading) == NeedsAugmentation(c) /\ AugmentRaises(c, reading)

\* lines 276-291: the images and labels appended for class c.
BalancedClassImages(c) ==
  IF NeedsAugmentation(c)
    THEN ClassImages(c) \o AugmentPasses(ClassImages(c), AugmentationFactor(c))
    ELSE ClassImages(c)
BalancedClassLabels(c) == [ k \in 1 .. Len(BalancedClassImages(c)) |-> c ]

RECURSIVE CatClasses(_, _)
CatClasses(f, c) == IF c < 0 THEN << >> ELSE CatClasses(f, c - 1) \o f[c]

\* lines 271-300: the balancing loop over the classes; an exception of
\* augment_data leaves server_update.
BalanceClasses ==
  /\ su_pc = "balance"
  /\ \E reading \in RangeReadings :
       IF \E c \in Classes : ClassRaises(c, reading)
         THEN /\ su_pc' = "raised"
              /\ error' = "augment_data"
              /\ UNCHANGED << balanced_images, balanced_labels >>
         ELSE /\ balanced_images' =
                   CatClasses([ c \in Classes |-> BalancedClassImages(c) ], NumClasses - 1)
              /\ balanced_labels' =
                   CatClasses([ c \in Classes |-> BalancedClassLabels(c) ], NumClasses - 1)
              /\ su_pc' = "load_model"
              /\ UNCHANGED error
  /\ UNCHANGED << su_round, client_files, rc_file, model_files, Rc, client_id,
                  all_images, all_labels, class_counts, net, ret, trained,
                  evaluated_net, writes >>
  /\ UNCHANGED fedavgVars

\* load_latest_model (utils.utils_fedaf): reads the newest model file, or
\* builds a new network when there is none; it writes nothing.
LoadLatestModel(files) == << "net", files >>

\* lines 307-308: some entry of Rc is not None.
HasValidRc(rc) == \E c \in Classes : rc[c] # "None"

\* lines 302-312: load the latest model; without a valid Rc return.
LoadModelAndCheckRc ==
  /\ su_pc = "load_model"
  /\ net' = LoadLatestModel(model_files)
  /\ IF HasValidRc(Rc)
       THEN /\ su_pc' = "train"
            /\ UNCHANGED ret
       ELSE /\ su_pc' = "returned"
            /\ ret' = ReturnNone
  /\ UNCHANGED << su_round, client_files, rc_file, model_files, Rc, client_id,
                  all_images, all_labels, class_counts, balanced_images,
                  balanced_labels, trained, evaluated_net, writes, error >>
  /\ UNCHANGED fedavgVars

\* train_model, lines 86-88: every class index is looked up in rc_tensor,
\* which holds only the valid entries of Rc (line 309): with an entry missing
\* the lookup raises IndexError before the first optimizer step.
TrainRaises(rc) == \E c \in Classes : rc[c] = "None"

\* line 316: train_model (num_epochs >= 1).
TrainGlobalModel ==
  /\ su_pc = "train"
  /\ IF TrainRaises(Rc)
       THEN /\ su_pc' = "raised"
            /\ error' = "train_model"
            /\ UNCHANGED << net, trained >>
       ELSE /\ net' = << "trained", net, balanced_images, balanced_labels >>
            /\ trained' = TRUE
            /\ su_pc' = "evaluate"
            /\ UNCHANGED error
  /\ UNCHANGED << su_round, client_files, rc_file, model_files, Rc, client_id,
                  all_images, all_labels, class_counts, balanced_images,
                  balanced_labels, ret, evaluated_net, writes >>
  /\ UNCHANGED fedavgVars

\* line 320: evaluate_model
EvaluateGlobalModel ==
  /\ su_pc = "evaluate"
  /\ evaluated_net' = TRUE
  /\ su_pc' = "save"
  /\ UNCHANGED << su_round, client_files, rc_file, model_files, Rc, client_id,
                  all_images, all_labels, class_counts, balanced_images,
                  balanced_labels, net, ret, trained, writes, error >>
  /\ UNCHANGED fedavgVars

\* lines 322-329: torch.save of the model of this round; a failure is caught
\* and printed.
SaveGlobalModel ==
  /\ su_pc = "save"
  /\ \E saved \in BOOLEAN :
       IF saved
         THEN /\ model_files' = [ state |-> "saved", content |-> net ]
              /\ writes' = writes + 1
         ELSE UNCHANGED << model_files, writes >>
  /\ ret' = ReturnNone
  /\ su_pc' = "returned"
  /\ UNCHANGED << su_round, client_files, rc_file, Rc, client_id, all_images,
                  all_labels, class_counts, balanced_images, balanced_labels, net,
                  trained, evaluated_net, error >>
  /\ UNCHANGED fedavgVars

NextFedAF ==
  \/ LoadRc
  \/ AggregateClient
  \/ CheckAggregated
  \/ BalanceClasses
  \/ LoadModelAndCheckRc
  \/ TrainGlobalModel
  \/ EvaluateGlobalModel
  \/ SaveGlobalModel

SpecFedAF == InitFedAF /\ [][NextFedAF]_vars

\* ------------------------------------------------------------------ claims
\* What server.aggregate was given in round r.
AggModels(r) == agg_args[r][1]
AggSizes(r) == agg_args[r][2]

\* C1 (state part): per round, aggregate and evaluate are each called at most
\* once, evaluate only after aggregate, aggregate only after the fetch, a round
\* is fetched only after the previous round was evaluated, and at the end every
\* round has had exactly one aggregate and one evaluate.
C1_OrderInv ==
  /\ \A r \in Rounds :
       /\ agg_calls[r] <= 1 /\ eval_calls[r] <= 1
       /\ eval_calls[r] = 1 => agg_calls[r] = 1
       /\ agg_calls[r] = 1 => distributed[r] # NoState
       /\ agg_calls[r] = 1 => \A i \in Clients : trained_round[i] >= r
       /\ (r > 1 /\ distributed[r] # NoState) => eval_calls[r - 1] = 1
       /\ (\E i \in Clients : trained_round[i] >= r) => distributed[r] # NoState
  /\ pc = "done" => \A r \in Rounds : agg_calls[r] = 1 /\ eval_calls[r] = 1

\* C1 (step part): a client step of round r happens after the fetch of round r
\* and before its aggregate; aggregate starts only when every client of the
\* round has returned its model; evaluate follows aggregate.
C1_OrderStep ==
  /\ (cpc' # cpc /\ pc' = pc) =>
        /\ distributed[round_num] # NoState
        /\ agg_calls[round_num] = 0
        /\ eval_calls[round_num] = 0
  /\ (agg_calls' # agg_calls) =>
        /\ \A i \in Clients : cpc[i] = "returned" /\ trained_round[i] = round_num
        /\ \A i \in Clients : results[i] # NoState
        /\ agg_calls[round_num] = 0
  /\ (eval_calls' # eval_calls) =>
        /\ agg_calls[round_num] = 1
        /\ eval_calls[round_num] = 0
  /\ (round_num' # round_num) =>
        /\ round_num' = round_num + 1
        /\ eval_calls[round_num] = 1

\* C1: every round runs fetch, then all clients train, then one aggregate,
\* then one evaluate; aggregate waits for every client of the round and no
\* step of the next round precedes the evaluation of this one.
C1_RoundOrder == []C1_OrderInv /\ [][C1_OrderStep]_vars

\* C1's case: all rounds done, the last round's clients having finished in
\* reverse order of submission.
C1_Witness ==
  /\ pc = "done"
  /\ Len(finish_order) = NumClients
  /\ \A k \in 1 .. NumClients : finish_order[k] = NumClients - k

\* C2: the state distributed at the start of round r+1 is the one aggregate
\* produced at the end of round r, and only server.aggregate changes the
\* server's global state.
C2_StateInv ==
  /\ \A r \in Rounds :
       (r < NumRounds /\ distributed[r + 1] # NoState) =>
           /\ aggregated[r] # NoState
           /\ distributed[r + 1] = aggregated[r]
  /\ \A i \in Clients : \A r \in Rounds :
       (pc = "wait" /\ r = round_num /\ r > 1) => client_state[i][2] = aggregated[r - 1]

C2_GlobalStateReplaced ==
  []C2_StateInv /\ [][server' # server => (pc = "aggregate" /\ pc' = "evaluate")]_vars

\* C2's case: the last round has distributed a state to working clients.
C2_Witness ==
  /\ NumRounds > 1
  /\ round_num = NumRounds
  /\ distributed[NumRounds] # NoState
  /\ \E i \in Clients : cpc[i] = "ready"

\* C3: honest_clients never changes after startup, every client is passed one
\* and the same is_dishonest value in all rounds, and its labels are randomized
\* in every round it trains or in none.
C3_FlagInv ==
  \A i \in Clients :
    /\ flags_passed[i] \subseteq { i \notin honest_clients }
    /\ randomized[i] \subseteq { i \notin honest_clients }

C3_HonestyFixed == []C3_FlagInv /\ [][honest_clients' = honest_clients]_vars

\* C3's case: after the last round, with an honest and a dishonest client.
C3_Witness ==
  /\ pc = "done"
  /\ NumRounds > 1
  /\ \E i, j \in Clients : randomized[i] = { TRUE } /\ randomized[j] = { FALSE }

\* C4: client_indices and data_sizes never change; client i trains on
\* client_indices[i] in every round and aggregate is given len(client_indices[i])
\* as its weight in every round.
C4_PartitionInv ==
  /\ \A i \in Clients : trained_on[i] \subseteq { client_indices[i] }
  /\ \A i \in Clients : data_sizes[i] = Cardinality(client_indices[i])
  /\ \A r \in Rounds : agg_calls[r] > 0 =>
        \A i \in Clients : AggSizes(r)[i] = Cardinality(client_indices[i])

C4_PartitionFixed ==
  []C4_PartitionInv
  /\ [][client_indices' = client_indices /\ data_sizes' = data_sizes]_vars

\* C4's case: all rounds done with partitions of different sizes.
C4_Witness ==
  /\ pc = "done"
  /\ \E i, j \in Clients : data_sizes[i] > data_sizes[j]
  /\ \A i \in Clients : trained_on[i] = { client_indices[i] }

\* C5: whatever the interleaving, the state each client loads with set_model
\* is the state the server held at the start of that round, and a client's
\* training changes neither the server's state nor what another client
\* received or loaded.
C5_SameStartInv ==
  \A i \in Clients : \A r \in Rounds :
    loaded_state[i][r] # NoState =>
       /\ round_start[r] # NoState
       /\ loaded_state[i][r] = round_start[r]

C5_TrainStep ==
  \A i \in Clients :
    (cpc[i] = "ready" /\ cpc'[i] = "returned") =>
       /\ server' = server
       /\ global_model' = global_model
       /\ client_state' = client_state
       /\ \A j \in Clients \ {i} : local_model'[j] = local_model[j]

C5_SameStartState == []C5_SameStartInv /\ [][C5_TrainStep]_vars

\* C5's case: in a later round one client has finished training while another
\* has loaded its state and a third has not started.
C5_Witness ==
  /\ round_num > 1
  /\ \E i, j \in Clients :
       /\ cpc[i] = "returned"
       /\ cpc[j] = "ready"
       /\ loaded_state[j][round_num] # NoState

\* C6 (state part): test_accuracies has one entry per finished round, entry k
\* being the accuracy evaluated in round k, and main() ends only after
\* num_rounds rounds whatever the accuracies were.
C6_AccuraciesInv ==
  /\ \A k \in 1 .. Len(test_accuracies) : k \in Rounds /\ test_accuracies[k] = evaluated[k]
  /\ pc \in { "fetch", "prepare", "submit", "wait", "aggregate", "evaluate", "append" } =>
        Len(test_accuracies) = round_num - 1
  /\ pc = "done" =>
        /\ round_num = NumRounds
        /\ Len(test_accuracies) = NumRounds
        /\ \A r \in Rounds : eval_calls[r] = 1

\* C6: when every client training call terminates, main() reaches the end
\* after exactly num_rounds rounds, and test_accuracies holds the accuracy of
\* each round in order.
C6_Terminates == <>(pc = "done") /\ []C6_AccuraciesInv

\* C6's case: the end is reached although the first round already had the
\* high accuracy.
C6_Witness ==
  /\ pc = "done"
  /\ Len(test_accuracies) = NumRounds
  /\ test_accuracies[1] = 90

\* C7: whatever the completion order, aggregate is given exactly num_clients
\* models, entry i being the model client i trained in that round from that
\* round's state, paired with the size of the data client i trained on.
C7_ModelsInOrder ==
  \A r \in Rounds : agg_calls[r] > 0 =>
    /\ DOMAIN AggModels(r) = Clients
    /\ \A i \in Clients :
         /\ Len(AggModels(r)[i]) = 4
         /\ AggModels(r)[i][1] = "trained"
         /\ AggModels(r)[i][2] = distributed[r]
         /\ AggModels(r)[i][3] = i
         /\ AggSizes(r)[i] = Cardinality(AggModels(r)[i][4].indices)

\* C7's case: aggregate was called after the clients finished in reverse order.
C7_Witness ==
  /\ pc = "evaluate"
  /\ Len(finish_order) = NumClients
  /\ \A k \in 1 .. NumClients : finish_order[k] = NumClients - k
  /\ \E i, j \in Clients : data_sizes[i] # data_sizes[j]

\* ---------------------------------------------------- claims, server_update
\* The claims' own reading of the inputs.
Skipped(f) ==
  \/ f.kind = "missing"
  \/ f.kind = "corrupt"
  \/ f.kind = "no_images"
  \/ f.kind = "no_labels"
  \/ Len(f.labels) = 0
Contributed == \E c \in Parts : ~Skipped(client_files[c])
ValidRcAvailable == rc_file.exists /\ \E c \in Classes : rc_file.entries[c] # "None"
Finished == su_pc \in { "returned", "raised" }
NothingTrainedOrWritten ==
  /\ ~trained
  /\ ~evaluated_net
  /\ writes = 0
  /\ model_files.state # "saved"

\* C8: a model is trained, evaluated and saved only if some client
\* contributed data and Rc has a valid entry; with no contribution
\* server_update returns num_classes None values, with no valid Rc it returns
\* without training, and in both cases nothing is trained, evaluated or written.
C8_UpdateOnlyWithInputs ==
  /\ (trained \/ evaluated_net \/ writes > 0 \/ model_files.state = "saved")
        => (Contributed /\ ValidRcAvailable)
  /\ (Finished /\ ~Contributed) =>
        /\ su_pc = "returned"
        /\ ret = NoneList
        /\ NothingTrainedOrWritten
  /\ (Finished /\ Contributed /\ ~ValidRcAvailable) =>
        /\ su_pc = "returned"
        /\ ret = ReturnNone
        /\ NothingTrainedOrWritten

\* The part of C8 that the code keeps: without a contribution or without a
\* valid Rc nothing is trained, evaluated or written, and with no contribution
\* the list of None is returned.
C8_NoUpdateWithoutInputs ==
  /\ (trained \/ evaluated_net \/ writes > 0 \/ model_files.state = "saved")
        => (Contributed /\ ValidRcAvailable)
  /\ (Finished /\ ~Contributed) => (su_pc = "returned" /\ ret = NoneList)
  /\ (Finished /\ ~(Contributed /\ ValidRcAvailable)) => NothingTrainedOrWritten

\* The tensors the loop has to hold after the first n clients: one per client
\* that is not skipped, in client-id order.
RECURSIVE ExpectedImages(_)
ExpectedImages(n) ==
  IF n = 0 THEN << >>
  ELSE ExpectedImages(n - 1)
         \o (IF Skipped(client_files[n - 1]) THEN << >>
             ELSE << ImagesOf(n - 1, client_files[n - 1]) >>)
RECURSIVE ExpectedLabels(_)
ExpectedLabels(n) ==
  IF n = 0 THEN << >>
  ELSE ExpectedLabels(n - 1)
         \o (IF Skipped(client_files[n - 1]) THEN << >>
             ELSE << client_files[n - 1].labels >>)
LabelCount(labels, c) == Cardinality({ k \in 1 .. Len(labels) : labels[k] = c })

\* C9: a client whose file is missing, fails to load, lacks a key or holds no
\* image is skipped and the loop goes on: the aggregated data is exactly the
\* images and labels of the other clients in client-id order, and
\* class_counts[c] is the number of aggregated labels equal to c.
C9_SkipsBadClients ==
  /\ su_pc = "clients" =>
        /\ all_images = ExpectedImages(client_id)
        /\ all_labels = ExpectedLabels(client_id)
        /\ \A c \in Classes : class_counts[c] = LabelCount(Cat(all_labels), c)
        /\ error = ""
  /\ su_pc \in { "balance", "load_model", "train", "evaluate", "save", "raised" } =>
        /\ all_images = Cat(ExpectedImages(NumPartitions))
        /\ all_labels = Cat(ExpectedLabels(NumPartitions))
        /\ \A c \in Classes : class_counts[c] = LabelCount(all_labels, c)
        /\ error \in { "", "augment_data", "train_model" }
  /\ su_pc = "returned" =>
        /\ Cat(ExpectedImages(NumPartitions)) = (IF ret = NoneList THEN << >> ELSE all_images)
        /\ \A c \in Classes :
              class_counts[c] = LabelCount(Cat(ExpectedLabels(NumPartitions)), c)

\* C9's case: the loop is over, a client whose file fails to load was skipped
\* and a later client's data was aggregated.
C9_Witness ==
  /\ su_pc = "balance"
  /\ \E c, d \in Parts :
       /\ c < d
       /\ client_files[c].kind = "corrupt"
       /\ ~Skipped(client_files[d])
       /\ all_images = ImagesOf(d, client_files[d])

\* The balancing step of lines 271-294 has been run (to its end or not).
BalanceActed ==
  \/ su_pc \in { "load_model", "train", "evaluate", "save", "raised" }
  \/ su_pc = "returned" /\ ret = ReturnNone

\* C10: for every combination of per-class counts, after the balancing step
\* every class has max_class_count samples and keeps all its original samples.
C10_ClassesBalanced ==
  BalanceActed =>
    /\ error # "augment_data"
    /\ \A c \in Classes :
         /\ LabelCount(balanced_labels, c) = max_class_count
         /\ \A k \in 1 .. Len(all_images) :
              all_labels[k] = c =>
                 \E j \in 1 .. Len(balanced_images) :
                    balanced_images[j] = all_images[k] /\ balanced_labels[j] = c

====
